---- MODULE Spec2Model ----
(***************************************************************************)
(* Model of volkancakil/RustAlgorithms:                                    *)
(*   src/dynamic_programming/word_break.rs  (word_break, search)           *)
(*   src/string/anagram.rs                  (check_anagram and helpers)    *)
(*   crate::data_structures::Trie           (insert, get; the source file  *)
(*     is not among the files modelled here, so the Trie follows section   *)
(*     4.1 of the specification)                                           *)
(***************************************************************************)
EXTENDS Integers, Sequences, FiniteSets, TLC

VARIABLES
    s,          \* word_break: the input string, its UTF-8 bytes
    dict,       \* word_break: the words of word_dict inserted so far
    trie,       \* the Trie (its root node)
    memo,       \* search: Vec<Option<bool>>, slot i+1 holds memo[i]
    stack,      \* search: the call stack, innermost frame last
    ret,        \* search: value a finished call hands to its caller
    result,     \* word_break: "none" | "true" | "false" | "panic"
    pc,         \* position of the running specification
    memoReads,  \* ghost: number of reads of memo[start] (line 39)
    lookups,    \* ghost: number of trie.get calls (line 44)
    expands,    \* ghost: expands[i+1] = times the loop of line 43 was entered for start = i
    inserted,   \* ghost (Trie): key -> Option of the value of the last insert
    overwrote,  \* ghost (Trie): an insert replaced a different value
    an_s,       \* check_anagram: first argument
    an_t,       \* check_anagram: second argument
    an_res      \* check_anagram: "none" | "Ok(true)" | "Ok(false)" | "Err"

vars == <<s, dict, trie, memo, stack, ret, result, pc, memoReads, lookups,
          expands, inserted, overwrote, an_s, an_t, an_res>>

wbVars == <<s, dict, memo, stack, ret, result, memoReads, lookups, expands>>
anVars == <<an_s, an_t, an_res>>
trVars == <<inserted, overwrote>>

----------------------------------------------------------------------------
(* Bounds *)

MaxLen == 3         \* chars in the input string s
MaxWordLen == 2     \* chars in a dictionary word / Trie key
MaxDict == 2        \* distinct words in the dictionary / keys in the Trie
MaxAnLen == 2       \* chars in an argument of check_anagram

----------------------------------------------------------------------------
(* Characters and strings.  A Rust str is UTF-8: s.len() and s[a..b] count *)
(* bytes, s.chars() yields chars.  "e_acute" stands for U+00E9, which      *)
(* takes two bytes; "a" and "b" take one.  The input string is held as its *)
(* bytes; dictionary words and Trie keys are only ever read through        *)
(* chars() and are held as char sequences.  Words are drawn over "a" and   *)
(* "b", plus the one-char word "e_acute".                                  *)

Alphabet == {"a", "b", "e_acute"}
WordAlphabet == {"a", "b"}

Width(c) == IF c = "e_acute" THEN 2 ELSE 1

RECURSIVE SeqsUpTo(_, _)
SeqsUpTo(A, n) ==
    IF n = 0 THEN {<<>>}
    ELSE LET shorter == SeqsUpTo(A, n - 1)
         IN  shorter \cup {Append(w, c) : w \in shorter, c \in A}

\* The UTF-8 encoding of a char sequence: byte <<c, k>> is the k-th byte of
\* char c.
RECURSIVE as_bytes(_)
as_bytes(cs) ==
    IF cs = <<>> THEN <<>>
    ELSE [k \in 1..Width(Head(cs)) |-> <<Head(cs), k>>] \o as_bytes(Tail(cs))

Strings == {as_bytes(cs) : cs \in SeqsUpTo(Alphabet, MaxLen)}
Words == SeqsUpTo(WordAlphabet, MaxWordLen) \cup {<<"e_acute">>}
TrieKeys == SeqsUpTo(WordAlphabet, MaxWordLen)

\* str::len: the length in bytes.
len(str) == Len(str)

\* str::is_char_boundary: offset 0, offset len, or the first byte of a char.
is_char_boundary(str, i) ==
    \/ i = 0
    \/ i = len(str)
    \/ i < len(str) /\ str[i + 1][2] = 1

\* str::chars: decoding of bytes that start and end on char boundaries.
RECURSIVE chars_of(_)
chars_of(bytes) ==
    IF bytes = <<>> THEN <<>>
    ELSE IF Head(bytes)[2] = 1 THEN <<Head(bytes)[1]>> \o chars_of(Tail(bytes))
    ELSE chars_of(Tail(bytes))

\* s[start..end] panics unless start <= end <= len and both are boundaries.
slice_panics(str, start, end) ==
    ~ (/\ start <= end
       /\ end <= len(str)
       /\ is_char_boundary(str, start)
       /\ is_char_boundary(str, end))

\* s[start..end].chars(), defined when the slice does not panic.
slice_chars(str, start, end) ==
    chars_of(SubSeq(str, start + 1, end))

----------------------------------------------------------------------------
(* Option<T> *)

None == <<>>
Some(v) == <<v>>

----------------------------------------------------------------------------
(* Trie<Key, Type>: a node owns its children; the tree is a nested value.  *)

DefaultNode == [children |-> <<>>, value |-> None]

Trie_new == DefaultNode

\* get: walk the matching edges; None when an edge is missing, else the
\* value of the node reached.
RECURSIVE get_from(_, _, _)
get_from(node, key, i) ==
    IF i > Len(key) THEN node.value
    ELSE IF key[i] \in DOMAIN node.children
         THEN get_from(node.children[key[i]], key, i + 1)
         ELSE None

get(root, key) == get_from(root, key, 1)

\* insert: walk or create one child per symbol, then set the value.
RECURSIVE insert_from(_, _, _, _)
insert_from(node, key, i, value) ==
    IF i > Len(key) THEN [node EXCEPT !.value = Some(value)]
    ELSE LET c == key[i]
             child == IF c \in DOMAIN node.children
                      THEN node.children[c] ELSE DefaultNode
         IN  [node EXCEPT !.children =
                 (c :> insert_from(child, key, i + 1, value)) @@ node.children]

\* Mutant: a key that already holds a value keeps it.
insert_keep(root, key, value) ==
    IF get(root, key) # None THEN root ELSE insert_from(root, key, 1, value)

insert(root, key, value) == insert_from(root, key, 1, value)

----------------------------------------------------------------------------
(* Specification SpecTrie: any sequence of inserts on a fresh Trie.        *)

IdleWb ==
    /\ s = <<>> /\ dict = {} /\ memo = <<>> /\ stack = <<>> /\ ret = None
    /\ result = "none" /\ memoReads = 0 /\ lookups = 0 /\ expands = <<>>

IdleAn == an_s = <<>> /\ an_t = <<>> /\ an_res = "none"

IdleTr == inserted = <<>> /\ overwrote = FALSE

InsertedKeys == {k \in DOMAIN inserted : inserted[k] # None}

InitTrie ==
    /\ IdleWb /\ IdleAn
    /\ pc = "trie"
    /\ trie = Trie_new
    /\ inserted = [k \in TrieKeys |-> None]
    /\ overwrote = FALSE

TrieInsert(key, value) ==
    /\ pc = "trie"
    /\ key \in InsertedKeys \/ Cardinality(InsertedKeys) < MaxDict
    /\ trie' = insert(trie, key, value)
    /\ inserted' = [inserted EXCEPT ![key] = Some(value)]
    /\ overwrote' = (overwrote \/ (inserted[key] # None /\ inserted[key] # Some(value)))
    /\ UNCHANGED <<pc, wbVars, anVars>>

NextTrie == \E key \in TrieKeys, value \in BOOLEAN : TrieInsert(key, value)

SpecTrie == InitTrie /\ [][NextTrie]_vars

----------------------------------------------------------------------------
(* word_break.rs as a pure function.                                       *)

ResOf(b) == IF b THEN "true" ELSE "false"

\* Mutant: the comparison of line 35 off by one.
is_base_case_past_end(str, start) == start > len(str)

\* line 35: the base case of search.
is_base_case(str, start) == start = len(str)

\* line 43: the first candidate end of the loop `start + 1..=s.len()`.
first_end(start) == start + 1

\* Mutant: the exclusive range `start + 1..s.len()`.
loop_done_exclusive(str, end) == end >= len(str)

\* line 43: the loop has run out of candidates.
loop_done(str, end) == end > len(str)

\* Mutant: a prefix match in place of the exact lookup.
is_word_prefix(root, str, start, end) ==
    \E k \in start..end :
        /\ ~ slice_panics(str, start, k)
        /\ get(root, slice_chars(str, start, k)) # None

\* line 44: trie.get(s[start..end].chars()).is_some()
is_word(root, str, start, end) == get(root, slice_chars(str, start, end)) # None

\* Mutant: the memo is never consulted.
memo_get_unresolved(m, start) == None

\* line 39: memo[start]
memo_get(m, start) == m[start + 1]

\* Mutant: the write lands on the slot of the next position.
memo_set_shifted(m, start, b) == [m EXCEPT ![start + 2] = Some(b)]

\* lines 45 and 50: memo[start] = Some(b)
memo_set(m, start, b) == [m EXCEPT ![start + 1] = Some(b)]

\* line 19: vec![None; s.len() + 1]
new_memo(str) == [i \in 1..(len(str) + 1) |-> None]

\* lines 13-16: a fresh Trie with every word of word_dict inserted as true.
RECURSIVE build_trie(_)
build_trie(word_dict) ==
    IF word_dict = {} THEN Trie_new
    ELSE LET w == CHOOSE x \in word_dict : TRUE
         IN  insert(build_trie(word_dict \ {w}), w, TRUE)

\* lines 34-52: search returns its result and the memo it leaves behind;
\* a panic of the slice at line 44 unwinds through every caller.
RECURSIVE search(_, _, _, _)
RECURSIVE search_loop(_, _, _, _, _)
search(root, str, start, m) ==
    IF is_base_case(str, start) THEN [res |-> "true", memo |-> m]
    ELSE IF memo_get(m, start) # None
         THEN [res |-> ResOf(memo_get(m, start)[1]), memo |-> m]
    ELSE search_loop(root, str, start, first_end(start), m)

\* Mutant: the first word found decides, no further candidate end is tried.
search_loop_greedy(root, str, start, end, m) ==
    IF loop_done(str, end)
    THEN [res |-> "false", memo |-> memo_set(m, start, FALSE)]
    ELSE IF slice_panics(str, start, end) THEN [res |-> "panic", memo |-> m]
    ELSE IF is_word(root, str, start, end)
         THEN LET r == search(root, str, end, m)
              IN  IF r.res = "panic" THEN r
                  ELSE [res |-> r.res, memo |-> memo_set(r.memo, start, r.res = "true")]
         ELSE search_loop(root, str, start, end + 1, m)

search_loop(root, str, start, end, m) ==
    IF loop_done(str, end)
    THEN [res |-> "false", memo |-> memo_set(m, start, FALSE)]
    ELSE IF slice_panics(str, start, end) THEN [res |-> "panic", memo |-> m]
    ELSE IF is_word(root, str, start, end)
         THEN LET r == search(root, str, end, m)
              IN  IF r.res = "panic" THEN r
                  ELSE IF r.res = "true"
                       THEN [res |-> "true", memo |-> memo_set(r.memo, start, TRUE)]
                       ELSE search_loop(root, str, start, end + 1, r.memo)
         ELSE search_loop(root, str, start, end + 1, m)

\* lines 12-21
word_break(str, word_dict) ==
    search(build_trie(word_dict), str, 0, new_memo(str)).res

----------------------------------------------------------------------------
(* Specification Spec: one call of word_break, statement by statement.     *)

Frame(start) == [start |-> start, end |-> 0, st |-> "enter"]
Top == stack[Len(stack)]
Pop == SubSeq(stack, 1, Len(stack) - 1)
SetTop(f) == [stack EXCEPT ![Len(stack)] = f]

Init ==
    /\ IdleAn /\ IdleTr
    /\ pc = "build"
    /\ s \in Strings
    /\ dict = {}
    /\ trie = Trie_new
    /\ memo = <<>> /\ stack = <<>> /\ ret = None /\ result = "none"
    /\ memoReads = 0 /\ lookups = 0 /\ expands = <<>>

\* lines 14-16: one iteration of the loop over word_dict, in any order.
\* A word that occurs again in word_dict is inserted with the same value
\* true, which leaves the Trie as it is.
InsertWord(word) ==
    /\ pc = "build"
    /\ word \notin dict
    /\ Cardinality(dict) < MaxDict
    /\ trie' = insert(trie, word, TRUE)
    /\ dict' = dict \cup {word}
    /\ UNCHANGED <<s, memo, stack, ret, result, pc, memoReads, lookups, expands,
                   trVars, anVars>>

\* lines 19-20: allocate the memo and call search(&trie, s, 0, &mut memo).
StartSearch ==
    /\ pc = "build"
    /\ pc' = "search"
    /\ memo' = new_memo(s)
    /\ expands' = [i \in 1..(len(s) + 1) |-> 0]
    /\ stack' = <<Frame(0)>>
    /\ UNCHANGED <<s, dict, trie, ret, result, memoReads, lookups, trVars, anVars>>

Running == pc = "search" /\ stack # <<>>

\* lines 35-37
SearchBase ==
    /\ Running /\ Top.st = "enter"
    /\ is_base_case(s, Top.start)
    /\ stack' = Pop
    /\ ret' = Some(TRUE)
    /\ UNCHANGED <<s, dict, trie, memo, result, pc, memoReads, lookups, expands,
                   trVars, anVars>>

\* lines 39-41, memo[start] is Some(res)
SearchMemoHit ==
    /\ Running /\ Top.st = "enter"
    /\ ~ is_base_case(s, Top.start)
    /\ memo_get(memo, Top.start) # None
    /\ memoReads' = memoReads + 1
    /\ stack' = Pop
    /\ ret' = memo_get(memo, Top.start)
    /\ UNCHANGED <<s, dict, trie, memo, result, pc, lookups, expands, trVars, anVars>>

\* lines 39-43, memo[start] is None: enter the loop
SearchExpand ==
    /\ Running /\ Top.st = "enter"
    /\ ~ is_base_case(s, Top.start)
    /\ memo_get(memo, Top.start) = None
    /\ memoReads' = memoReads + 1
    /\ expands' = [expands EXCEPT ![Top.start + 1] = @ + 1]
    /\ stack' = SetTop([Top EXCEPT !.end = first_end(Top.start), !.st = "loop"])
    /\ UNCHANGED <<s, dict, trie, memo, ret, result, pc, lookups, trVars, anVars>>

\* lines 50-51: no candidate end succeeded
LoopExhausted ==
    /\ Running /\ Top.st = "loop"
    /\ loop_done(s, Top.end)
    /\ memo' = memo_set(memo, Top.start, FALSE)
    /\ stack' = Pop
    /\ ret' = Some(FALSE)
    /\ UNCHANGED <<s, dict, trie, result, pc, memoReads, lookups, expands,
                   trVars, anVars>>

\* line 44: s[start..end] is not on char boundaries
LoopSlicePanic ==
    /\ Running /\ Top.st = "loop"
    /\ ~ loop_done(s, Top.end)
    /\ slice_panics(s, Top.start, Top.end)
    /\ result' = "panic"
    /\ pc' = "done"
    /\ UNCHANGED <<s, dict, trie, memo, stack, ret, memoReads, lookups, expands,
                   trVars, anVars>>

\* line 44: the slice is not a word, && short-circuits
LoopMiss ==
    /\ Running /\ Top.st = "loop"
    /\ ~ loop_done(s, Top.end)
    /\ ~ slice_panics(s, Top.start, Top.end)
    /\ ~ is_word(trie, s, Top.start, Top.end)
    /\ lookups' = lookups + 1
    /\ stack' = SetTop([Top EXCEPT !.end = @ + 1])
    /\ UNCHANGED <<s, dict, trie, memo, ret, result, pc, memoReads, expands,
                   trVars, anVars>>

\* line 44: the slice is a word, call search(trie, s, end, memo)
LoopHit ==
    /\ Running /\ Top.st = "loop"
    /\ ~ loop_done(s, Top.end)
    /\ ~ slice_panics(s, Top.start, Top.end)
    /\ is_word(trie, s, Top.start, Top.end)
    /\ lookups' = lookups + 1
    /\ stack' = Append(SetTop([Top EXCEPT !.st = "wait"]), Frame(Top.end))
    /\ UNCHANGED <<s, dict, trie, memo, ret, result, pc, memoReads, expands,
                   trVars, anVars>>

\* lines 44-47: the recursive call returned true
ReturnTrue ==
    /\ Running /\ Top.st = "wait"
    /\ ret = Some(TRUE)
    /\ memo' = memo_set(memo, Top.start, TRUE)
    /\ stack' = Pop
    /\ UNCHANGED <<s, dict, trie, ret, result, pc, memoReads, lookups, expands,
                   trVars, anVars>>

\* line 44: the recursive call returned false, next candidate end
ReturnFalse ==
    /\ Running /\ Top.st = "wait"
    /\ ret = Some(FALSE)
    /\ ret' = None
    /\ stack' = SetTop([Top EXCEPT !.end = @ + 1, !.st = "loop"])
    /\ UNCHANGED <<s, dict, trie, memo, result, pc, memoReads, lookups, expands,
                   trVars, anVars>>

\* line 20: the outermost search returns to word_break
Finish ==
    /\ pc = "search" /\ stack = <<>> /\ ret # None
    /\ result' = ResOf(ret[1])
    /\ pc' = "done"
    /\ UNCHANGED <<s, dict, trie, memo, stack, ret, memoReads, lookups, expands,
                   trVars, anVars>>

Next ==
    \/ \E word \in Words : InsertWord(word)
    \/ StartSearch
    \/ SearchBase
    \/ SearchMemoHit
    \/ SearchExpand
    \/ LoopExhausted
    \/ LoopSlicePanic
    \/ LoopMiss
    \/ LoopHit
    \/ ReturnTrue
    \/ ReturnFalse
    \/ Finish

Spec == Init /\ [][Next]_vars

\* The statement-level run and the function agree on every input.
RunMatchesFunction == pc = "done" => result = word_break(s, dict)

----------------------------------------------------------------------------
(* Segmentations, stated on chars and independently of the search.         *)

RECURSIVE Concat(_)
Concat(parts) == IF parts = <<>> THEN <<>> ELSE Head(parts) \o Concat(Tail(parts))

\* str is the concatenation of at least minParts entries of D.  Parts beyond
\* Len(str) + 1 could only be empty words, which cover nothing.
Segmentable(str, D, minParts) ==
    \E parts \in SeqsUpTo(D, Len(str) + 1) :
        Len(parts) >= minParts /\ Concat(parts) = str

\* lines 34-52 with the memo reads and writes (lines 39-41, 45, 50) removed.
RECURSIVE search_nomemo(_, _, _)
RECURSIVE search_nomemo_loop(_, _, _, _)
search_nomemo(root, str, start) ==
    IF start = len(str) THEN "true"
    ELSE search_nomemo_loop(root, str, start, start + 1)

search_nomemo_loop(root, str, start, end) ==
    IF end > len(str) THEN "false"
    ELSE IF slice_panics(str, start, end) THEN "panic"
    ELSE IF get(root, slice_chars(str, start, end)) # None
         THEN LET r == search_nomemo(root, str, end)
              IN  IF r = "false" THEN search_nomemo_loop(root, str, start, end + 1)
                  ELSE r
         ELSE search_nomemo_loop(root, str, start, end + 1)

MemoHits == memoReads - Cardinality({i \in DOMAIN expands : expands[i] > 0})

----------------------------------------------------------------------------
(* Claims checked under Spec.                                              *)

C2_ReturnsBoolean == pc = "done" => result \in {"true", "false"}

C4_EmptyDictFalse ==
    (pc = "done" /\ dict = {} /\ s # <<>>) => result = "false"

\* C6: the memoized search returns what the same search returns without a
\* memo table, also when a memoized false is read again.
C6_MemoTransparent ==
    pc = "done" => result = search_nomemo(trie, s, 0)

C6_Witness ==
    /\ pc = "done" /\ MemoHits > 0
    /\ result = "false"
    /\ \E i \in DOMAIN memo : memo[i] = Some(FALSE) /\ expands[i] = 1

\* C9: the memo starts all None, a resolved slot never changes and is never
\* written again, and the loop of a start position is entered at most once.
C9_Step ==
    /\ (pc = "build" /\ pc' = "search") =>
           /\ Len(memo') = len(s) + 1
           /\ \A i \in DOMAIN memo' : memo'[i] = None
    /\ pc = "search" =>
           \A i \in DOMAIN memo : memo[i] # None => memo'[i] = memo[i]
    /\ (LoopExhausted \/ ReturnTrue) => memo[Top.start + 1] = None
    /\ \A i \in DOMAIN expands' : expands'[i] <= 1

C9_MemoWriteOnce == [][C9_Step]_vars

C9_Witness ==
    /\ pc = "done" /\ MemoHits >= 1
    /\ Cardinality({i \in DOMAIN memo : memo[i] # None}) >= 2

----------------------------------------------------------------------------
(* Specification SpecFn: word_break applied to a dictionary that grows.    *)

InitFn ==
    /\ IdleAn /\ IdleTr
    /\ pc = "fn"
    /\ s \in Strings
    /\ dict = {}
    /\ trie = build_trie({})
    /\ result = word_break(s, {})
    /\ memo = <<>> /\ stack = <<>> /\ ret = None
    /\ memoReads = 0 /\ lookups = 0 /\ expands = <<>>

AddWord(word) ==
    /\ pc = "fn"
    /\ word \notin dict
    /\ Cardinality(dict) < MaxDict
    /\ dict' = dict \cup {word}
    /\ trie' = build_trie(dict')
    /\ result' = word_break(s, dict')
    /\ UNCHANGED <<s, memo, stack, ret, pc, memoReads, lookups, expands,
                   trVars, anVars>>

NextFn == \E word \in Words : AddWord(word)

SpecFn == InitFn /\ [][NextFn]_vars

\* C5: if word_break(s, D) is true and D is a subset of D', then
\* word_break(s, D') is true.
C5_Monotone ==
    pc = "fn" =>
        \A D \in SUBSET dict : word_break(s, D) = "true" => result = "true"

C5_Witness ==
    /\ pc = "fn" /\ result = "true" /\ s # <<>>
    /\ \E D \in SUBSET dict : D # dict /\ word_break(s, D) = "true"

\* C10: an empty-string entry does not change the result:
\* word_break(s, D \cup {""}) = word_break(s, D).
C10_EmptyWordNoEffect ==
    pc = "fn" =>
        /\ word_break(s, dict \cup {<<>>}) = result
        /\ word_break(s, dict \ {<<>>}) = result

C10_Witness ==
    /\ pc = "fn" /\ <<>> \in dict /\ Cardinality(dict) = 2
    /\ Len(chars_of(s)) >= 2 /\ result = "true"

----------------------------------------------------------------------------
(* Claim checked under SpecTrie.                                           *)

IsProperPrefix(k, k2) == Len(k) < Len(k2) /\ SubSeq(k2, 1, Len(k)) = k

\* C7: after any sequence of inserts, get(k) is the value of the last insert
\* of k, and None when k was never inserted as a complete key (a missing
\* edge, or only a proper prefix of inserted keys).
C7_GetIffInserted ==
    pc = "trie" => \A k \in TrieKeys : get(trie, k) = inserted[k]

C7_Witness ==
    /\ pc = "trie" /\ overwrote
    /\ \E k \in TrieKeys, k2 \in InsertedKeys :
          /\ IsProperPrefix(k, k2)
          /\ inserted[k] = None /\ get(trie, k) = None
    /\ \E k \in TrieKeys :
          /\ Len(k) = 1 /\ k[1] \notin DOMAIN trie.children
          /\ get(trie, k) = None

----------------------------------------------------------------------------
(* anagram.rs.  "E_acute" stands for U+00C9, the upper case of "e_acute";  *)
(* both are alphabetic and neither is ASCII.  "1" is neither whitespace    *)
(* nor alphabetic.                                                         *)

AnAlphabet == {"a", "A", "e_acute", "E_acute", " ", "1"}
AnStrings == SeqsUpTo(AnAlphabet, MaxAnLen)

\* char::is_whitespace
is_whitespace(c) == c = " "

\* char::is_alphabetic
is_alphabetic(c) == c \in {"a", "A", "e_acute", "E_acute"}

\* char::to_ascii_lowercase: only ASCII 'A'..='Z' are mapped.
to_ascii_lowercase(c) == IF c = "A" THEN "a" ELSE c

\* lines 39-50: Err on the first char that is neither whitespace nor
\* alphabetic, else the lowercased chars without whitespace.
RECURSIVE clean_string(_)
clean_string(str) ==
    IF str = <<>> THEN [ok |-> TRUE, val |-> <<>>]
    ELSE LET c == Head(str)
             rest == clean_string(Tail(str))
         IN  IF is_whitespace(c) THEN rest
             ELSE IF ~ is_alphabetic(c) THEN [ok |-> FALSE, val |-> <<>>]
             ELSE IF ~ rest.ok THEN rest
             ELSE [ok |-> TRUE, val |-> <<to_ascii_lowercase(c)>> \o rest.val]

\* lines 61-67: the HashMap from each char of str to its number of occurrences.
char_count(str) ==
    [c \in {str[i] : i \in DOMAIN str} |->
        Cardinality({i \in DOMAIN str : str[i] = c})]

\* lines 21-26
check_anagram(str1, str2) ==
    LET s_cleaned == clean_string(str1)
        t_cleaned == clean_string(str2)
    IN  IF ~ s_cleaned.ok THEN "Err"
        ELSE IF ~ t_cleaned.ok THEN "Err"
        ELSE IF char_count(s_cleaned.val) = char_count(t_cleaned.val)
             THEN "Ok(true)" ELSE "Ok(false)"

InitAnagram ==
    /\ IdleWb /\ IdleTr
    /\ trie = Trie_new
    /\ pc = "anagram"
    /\ an_s \in AnStrings
    /\ an_t \in AnStrings
    /\ an_res = "none"

CheckAnagram ==
    /\ pc = "anagram"
    /\ pc' = "anagram_done"
    /\ an_res' = check_anagram(an_s, an_t)
    /\ UNCHANGED <<an_s, an_t, trie, wbVars, trVars>>

NextAnagram == CheckAnagram

SpecAnagram == InitAnagram /\ [][NextAnagram]_vars

\* The claim's side: letters with case ignored.
Lowercase(c) ==
    IF c = "A" THEN "a" ELSE IF c = "E_acute" THEN "e_acute" ELSE c

HasNonAlphabetic(str) ==
    \E i \in DOMAIN str : ~ is_whitespace(str[i]) /\ ~ is_alphabetic(str[i])

LetterCount(str, letter) ==
    Cardinality({i \in DOMAIN str :
                    ~ is_whitespace(str[i]) /\ Lowercase(str[i]) = letter})

SameLetters(str1, str2) ==
    \A letter \in {Lowercase(c) : c \in AnAlphabet} :
        LetterCount(str1, letter) = LetterCount(str2, letter)

\* C8: check_anagram(s, t) is Err exactly when s or t holds a char that is
\* neither whitespace nor alphabetic; otherwise it is Ok(b), b true exactly
\* when s and t have the same letters with the same multiplicities after
\* removing whitespace and ignoring case; and (t, s) gives the same result.
C8_AnagramContract ==
    pc = "anagram_done" =>
        /\ an_res = "Err" <=> (HasNonAlphabetic(an_s) \/ HasNonAlphabetic(an_t))
        /\ an_res # "Err" =>
               an_res = IF SameLetters(an_s, an_t) THEN "Ok(true)" ELSE "Ok(false)"
        /\ an_res = check_anagram(an_t, an_s)

====
